---- MODULE Spec2Model ----
(***************************************************************************)
(* Request handlers of blogicum (blog/views.py) over the stored posts,     *)
(* comments, categories and users.  One action per view; the storage is    *)
(* the database the views read and write through the ORM.                  *)
(*                                                                         *)
(* Spec     : the mutating views (post and comment create/update/delete),  *)
(*            starting from an empty blog.                                 *)
(* SpecView : the reading views (home feed, detail, category, profile)     *)
(*            over every stored set of posts within the bounds.            *)
(*                                                                         *)
(* Generic-view control flow is Django 3.2 (the version named in the       *)
(* migrations' headers): DeleteView.post calls self.delete, UpdateView.get *)
(* and .post load the object first, LoginRequiredMixin.dispatch redirects  *)
(* an unauthenticated request to the login page.                           *)
(*                                                                         *)
(* A listing is the set of posts over all its pages (paginate_by = 10 is   *)
(* above the bounds on the number of posts), so ordering and paging are    *)
(* not modelled; neither are created_at, the post's text and image, the    *)
(* profile edit and the registration, which no property below reads.       *)
(* Time is counted in ticks, TicksPerDay of them to a calendar day.        *)
(***************************************************************************)
EXTENDS Integers, FiniteSets, Sequences, TLC

\* ------------------------------------------------------------------ bounds
MaxPosts == 2
MaxComments == 2
MaxTime == 2
TicksPerDay == 2

\* ------------------------------------------------------------- identities
Anonymous == "anon"
Users == {"alice", "bob"}
Actors == Users \cup {Anonymous}
\* usernames a profile URL may carry; "nobody" is no stored user
Usernames == Users \cup {"nobody"}

is_authenticated(actor) == actor \in Users
is_staff(actor) == actor = "bob"

\* ------------------------------------------------------- reference data
\* Category rows (slug and is_published); changed only through the admin.
Category ==
  [c1 |-> [slug |-> "c1", is_published |-> TRUE],
   c2 |-> [slug |-> "c2", is_published |-> FALSE]]
CategoryIds == DOMAIN Category
\* slugs a category URL may carry; "nocat" is no stored category
Slugs == {"c1", "c2", "nocat"}

PostIds == 1..MaxPosts
CommentIds == 1..MaxComments
Times == 0..MaxTime

\* pub_date__date / the date a datetime right-hand side is coerced to
date(t) == t \div TicksPerDay

VARIABLES posts, comments, nextPostId, nextCommentId, now, request, response
vars == <<posts, comments, nextPostId, nextCommentId, now, request, response>>
storage == <<posts, comments, nextPostId, nextCommentId>>

\* ------------------------------------------------------- requests, replies
NoPosts == {}
Request(view, method, actor, id, name) ==
  [view |-> view, method |-> method, actor |-> actor, id |-> id, name |-> name]
Response(kind, body) == [kind |-> kind, body |-> body]

\* --------------------------------------------------------------- forms
\* PostForm: every Post field but created_at and author.  valid is the
\* outcome of is_valid(): FALSE for a form with a field error and for the
\* unbound form of a GET (request.POST or None).
PostFormInvalid ==
  [valid |-> FALSE, is_published |-> FALSE, category |-> "c1", pub_date |-> 0]
\* the post data the mutating views are driven with
PostForm ==
  { [valid |-> TRUE, is_published |-> TRUE, category |-> "c1", pub_date |-> 0],
    [valid |-> TRUE, is_published |-> FALSE, category |-> "c2", pub_date |-> MaxTime],
    PostFormInvalid }
\* CommentForm: text only, a required field; "" is the empty submission
CommentForm == {"", "a", "b"}
\* a request is a GET without data or a POST with form data
PostFormRequests == {<<"GET", PostFormInvalid>>} \cup ({"POST"} \X PostForm)
CommentFormRequests == {<<"GET", "">>} \cup ({"POST"} \X CommentForm)
Methods == {"GET", "POST"}

PostFormIsValid(form) == form.valid
CommentFormIsValid(text) == text # ""

NewPost(author, form) ==
  [author |-> author, is_published |-> form.is_published,
   category |-> form.category, pub_date |-> form.pub_date]

\* a function with one more / one fewer key
Put(f, k, v) == [x \in DOMAIN f \cup {k} |-> IF x = k THEN v ELSE f[x]]
Drop(f, ks) == [x \in DOMAIN f \ ks |-> f[x]]

\* ================================================================ reading
\* PostListView.get_queryset: the __date transform compares calendar dates
PostListView_get_queryset ==
  { p \in DOMAIN posts :
      /\ posts[p].is_published = TRUE
      /\ Category[posts[p].category].is_published = TRUE
      /\ date(posts[p].pub_date) <= date(now) }

\* PostsMixin.get_queryset (blog/mixins.py): the same filter, annotated and
\* ordered; as a set of posts it is the filter alone
PostsMixin_get_queryset ==
  { p \in DOMAIN posts :
      /\ posts[p].is_published = TRUE
      /\ Category[posts[p].category].is_published = TRUE
      /\ date(posts[p].pub_date) <= date(now) }

PostListView(actor) ==
  /\ request' = Request("PostListView", "GET", actor, 0, "")
  /\ response' = Response("list", PostListView_get_queryset)
  /\ UNCHANGED <<storage, now>>

\* PostDetail.get without the author branch
PostDetail_get_published_only(post, user) ==
  IF post.is_published = FALSE THEN FALSE ELSE TRUE

\* PostDetail.get after get_object found the post: TRUE when the page is
\* rendered, FALSE when Http404 is raised
PostDetail_get(post, user) ==
  IF post.is_published = FALSE
    THEN IF post.author = user THEN TRUE ELSE FALSE
    ELSE TRUE

PostDetail(actor, post_id) ==
  /\ request' = Request("PostDetail", "GET", actor, post_id, "")
  /\ response' =
       IF post_id \notin DOMAIN posts THEN Response("not_found", NoPosts)
       ELSE IF PostDetail_get(posts[post_id], actor)
         THEN Response("detail", {post_id})
         ELSE Response("not_found", NoPosts)
  /\ UNCHANGED <<storage, now>>

\* CategoryList.get_queryset: strictly earlier calendar date, the post's
\* own flag and the slug; the category's flag is not part of the filter
CategoryList_get_queryset(category_slug) ==
  { p \in DOMAIN posts :
      /\ posts[p].is_published = TRUE
      /\ date(posts[p].pub_date) < date(now)
      /\ Category[posts[p].category].slug = category_slug }

\* CategoryList.get_context_data: get_object_or_404(Category, slug=...,
\* is_published=True)
CategoryList_get_context_data(category_slug) ==
  \E c \in CategoryIds :
    Category[c].slug = category_slug /\ Category[c].is_published = TRUE

CategoryList(actor, category_slug) ==
  /\ request' = Request("CategoryList", "GET", actor, 0, category_slug)
  /\ response' =
       IF CategoryList_get_context_data(category_slug)
         THEN Response("list", CategoryList_get_queryset(category_slug))
         ELSE Response("not_found", NoPosts)
  /\ UNCHANGED <<storage, now>>

\* ProfileView.get_context_data: every post of the profile's user
ProfileView_get_context_data(user_profile) ==
  { p \in DOMAIN posts : posts[p].author = user_profile }

\* ProfileView.get_object: get_object_or_404 on the username
ProfileView(actor, username) ==
  /\ request' = Request("ProfileView", "GET", actor, 0, username)
  /\ response' =
       IF username \notin Users THEN Response("not_found", NoPosts)
       ELSE Response("list", ProfileView_get_context_data(username))
  /\ UNCHANGED <<storage, now>>

\* every post table of at most MaxPosts rows; the views treat post ids as
\* interchangeable, so the tables are taken up to renumbering of the rows
PostRow == [author : Users, is_published : BOOLEAN, category : CategoryIds, pub_date : Times]
RowRank(row) ==
  ((((IF row.author = "alice" THEN 0 ELSE 1) * 2
      + (IF row.is_published THEN 1 ELSE 0)) * 2
      + (IF row.category = "c1" THEN 0 ELSE 1)) * (MaxTime + 1)) + row.pub_date

InitView ==
  /\ \E n \in 0..MaxPosts :
       /\ posts \in [1..n -> PostRow]
       /\ \A i \in 1..n : i < n => RowRank(posts[i]) <= RowRank(posts[i + 1])
       /\ nextPostId = n + 1
  /\ comments = <<>>
  /\ nextCommentId = 1
  /\ now \in Times
  /\ request = Request("none", "GET", Anonymous, 0, "")
  /\ response = Response("none", NoPosts)

NextView ==
  \/ \E actor \in Actors : PostListView(actor)
  \/ \E actor \in Actors, post_id \in PostIds : PostDetail(actor, post_id)
  \/ \E actor \in Actors, slug \in Slugs : CategoryList(actor, slug)
  \/ \E actor \in Actors, username \in Usernames : ProfileView(actor, username)

SpecView == InitView /\ [][NextView]_vars

\* =============================================================== mutating
\* post_create: @login_required; PostForm(request.POST or None)
post_create(actor, method, form) ==
  /\ request' = Request("post_create", method, actor, 0, "")
  /\ IF ~is_authenticated(actor)
       THEN /\ response' = Response("redirect_login", NoPosts)
            /\ UNCHANGED <<storage, now>>
     ELSE IF method = "GET" \/ ~PostFormIsValid(form)
       THEN /\ response' = Response("form", NoPosts)
            /\ UNCHANGED <<storage, now>>
     ELSE /\ nextPostId <= MaxPosts
          /\ posts' = Put(posts, nextPostId, NewPost(actor, form))
          /\ nextPostId' = nextPostId + 1
          /\ response' = Response("redirect_profile", NoPosts)
          /\ UNCHANGED <<comments, nextCommentId, now>>

\* PostUpdateView.form_valid without the author comparison
PostUpdateView_form_valid_any_user(post, user) ==
  is_authenticated(user)

\* PostUpdateView.form_valid: the condition under which the form is saved
PostUpdateView_form_valid(post, user) ==
  is_authenticated(user) /\ post.author = user

\* PostUpdateView: no login mixin and no dispatch override; get and post
\* load the object, get renders the form bound to it
PostUpdateView(actor, post_id, method, form) ==
  /\ request' = Request("PostUpdateView", method, actor, post_id, "")
  /\ IF post_id \notin DOMAIN posts
       THEN /\ response' = Response("not_found", NoPosts)
            /\ UNCHANGED <<storage, now>>
     ELSE IF method = "GET" \/ ~PostFormIsValid(form)
       THEN /\ response' = Response("form", {post_id})
            /\ UNCHANGED <<storage, now>>
     ELSE IF PostUpdateView_form_valid(posts[post_id], actor)
       THEN /\ posts' = [posts EXCEPT ![post_id] = NewPost(@.author, form)]
            /\ response' = Response("redirect_detail", {post_id})
            /\ UNCHANGED <<comments, nextPostId, nextCommentId, now>>
     ELSE /\ response' = Response("redirect_detail", {post_id})
          /\ UNCHANGED <<storage, now>>

\* Comment.post with on_delete=DO_NOTHING
on_delete_DO_NOTHING(cs, post_id) == cs

\* Comment.post: ForeignKey(on_delete=CASCADE, related_name='comments')
on_delete_CASCADE(cs, post_id) ==
  Drop(cs, { c \in DOMAIN cs : cs[c].post = post_id })

\* PostDeleteView.delete: the condition under which the post is deleted
PostDeleteView_delete(post, user) ==
  post.author = user \/ is_staff(user)

\* PostDeleteView: LoginRequiredMixin, then get_object; get renders the
\* confirmation page, post runs delete
PostDeleteView(actor, post_id, method) ==
  /\ request' = Request("PostDeleteView", method, actor, post_id, "")
  /\ IF ~is_authenticated(actor)
       THEN /\ response' = Response("redirect_login", NoPosts)
            /\ UNCHANGED <<storage, now>>
     ELSE IF post_id \notin DOMAIN posts
       THEN /\ response' = Response("not_found", NoPosts)
            /\ UNCHANGED <<storage, now>>
     ELSE IF method = "GET"
       THEN /\ response' = Response("confirm", {post_id})
            /\ UNCHANGED <<storage, now>>
     ELSE IF PostDeleteView_delete(posts[post_id], actor)
       THEN /\ posts' = Drop(posts, {post_id})
            /\ comments' = on_delete_CASCADE(comments, post_id)
            /\ response' = Response("redirect_index", NoPosts)
            /\ UNCHANGED <<nextPostId, nextCommentId, now>>
     ELSE /\ response' = Response("not_found", NoPosts)
          /\ UNCHANGED <<storage, now>>

\* CommentCreateView.form_valid: get_object_or_404(Post, pk=post_id)
CommentCreateView_form_valid(post_id) == post_id \in DOMAIN posts

\* CommentCreateView: LoginRequiredMixin; the post is looked up only in
\* form_valid, that is after the form validated
CommentCreateView(actor, post_id, method, text) ==
  /\ request' = Request("CommentCreateView", method, actor, post_id, "")
  /\ IF ~is_authenticated(actor)
       THEN /\ response' = Response("redirect_login", NoPosts)
            /\ UNCHANGED <<storage, now>>
     ELSE IF method = "GET" \/ ~CommentFormIsValid(text)
       THEN /\ response' = Response("form", NoPosts)
            /\ UNCHANGED <<storage, now>>
     ELSE IF ~CommentCreateView_form_valid(post_id)
       THEN /\ response' = Response("not_found", NoPosts)
            /\ UNCHANGED <<storage, now>>
     ELSE /\ nextCommentId <= MaxComments
          /\ comments' = Put(comments, nextCommentId,
                             [author |-> actor, post |-> post_id, text |-> text])
          /\ nextCommentId' = nextCommentId + 1
          /\ response' = Response("redirect_detail", {post_id})
          /\ UNCHANGED <<posts, nextPostId, now>>

\* CommentUpdateView.dispatch / CommentDeleteView.dispatch: TRUE when the
\* request goes on to the generic view, FALSE when Http404 is raised
CommentUpdateView_dispatch(comment, user) == ~(comment.author # user)
CommentDeleteView_dispatch(comment, user) == ~(comment.author # user)

\* CommentUpdateView: dispatch runs before LoginRequiredMixin's; the
\* post_id of the URL is not used
CommentUpdateView(actor, comment_id, method, text) ==
  /\ request' = Request("CommentUpdateView", method, actor, comment_id, "")
  /\ IF comment_id \notin DOMAIN comments
       THEN /\ response' = Response("not_found", NoPosts)
            /\ UNCHANGED <<storage, now>>
     ELSE IF ~CommentUpdateView_dispatch(comments[comment_id], actor)
       THEN /\ response' = Response("not_found", NoPosts)
            /\ UNCHANGED <<storage, now>>
     ELSE IF ~is_authenticated(actor)
       THEN /\ response' = Response("redirect_login", NoPosts)
            /\ UNCHANGED <<storage, now>>
     ELSE IF method = "GET" \/ ~CommentFormIsValid(text)
       THEN /\ response' = Response("form", {comments[comment_id].post})
            /\ UNCHANGED <<storage, now>>
     ELSE /\ comments' = [comments EXCEPT ![comment_id].text = text]
          /\ response' = Response("redirect_detail", {comments[comment_id].post})
          /\ UNCHANGED <<posts, nextPostId, nextCommentId, now>>

CommentDeleteView(actor, comment_id, method) ==
  /\ request' = Request("CommentDeleteView", method, actor, comment_id, "")
  /\ IF comment_id \notin DOMAIN comments
       THEN /\ response' = Response("not_found", NoPosts)
            /\ UNCHANGED <<storage, now>>
     ELSE IF ~CommentDeleteView_dispatch(comments[comment_id], actor)
       THEN /\ response' = Response("not_found", NoPosts)
            /\ UNCHANGED <<storage, now>>
     ELSE IF ~is_authenticated(actor)
       THEN /\ response' = Response("redirect_login", NoPosts)
            /\ UNCHANGED <<storage, now>>
     ELSE IF method = "GET"
       THEN /\ response' = Response("confirm", {comments[comment_id].post})
            /\ UNCHANGED <<storage, now>>
     ELSE /\ comments' = Drop(comments, {comment_id})
          /\ response' = Response("redirect_detail", {comments[comment_id].post})
          /\ UNCHANGED <<posts, nextPostId, nextCommentId, now>>

Init ==
  /\ posts = <<>>
  /\ comments = <<>>
  /\ nextPostId = 1
  /\ nextCommentId = 1
  /\ now = 0
  /\ request = Request("none", "GET", Anonymous, 0, "")
  /\ response = Response("none", NoPosts)

Next ==
  \/ \E actor \in Actors, r \in PostFormRequests :
       post_create(actor, r[1], r[2])
  \/ \E actor \in Actors, post_id \in PostIds, r \in PostFormRequests :
       PostUpdateView(actor, post_id, r[1], r[2])
  \/ \E actor \in Actors, post_id \in PostIds, method \in Methods :
       PostDeleteView(actor, post_id, method)
  \/ \E actor \in Actors, post_id \in PostIds, r \in CommentFormRequests :
       CommentCreateView(actor, post_id, r[1], r[2])
  \/ \E actor \in Actors, comment_id \in CommentIds, r \in CommentFormRequests :
       CommentUpdateView(actor, comment_id, r[1], r[2])
  \/ \E actor \in Actors, comment_id \in CommentIds, method \in Methods :
       CommentDeleteView(actor, comment_id, method)

Spec == Init /\ [][Next]_vars

\* ============================================================ the policy
\* The predicates of the design (section 4.1), as the specification words
\* them; the properties below compare the views against them.
isPubliclyVisible(post, t) ==
  /\ post.is_published = TRUE
  /\ Category[post.category].is_published = TRUE
  /\ post.pub_date <= t

canMutate(author, actor) == is_authenticated(actor) /\ actor = author

DetailOf(req) == req.view = "PostDetail" /\ req.id \in DOMAIN posts

\* ------------------------------------------------------------------- C1
\* C1: a viewer other than the author gets the post's detail page only if
\* the post is publicly visible at now, and not-found in every other case.
C1_DetailOnlyIfPubliclyVisible ==
  (DetailOf(request) /\ posts[request.id].author # request.actor)
    => /\ response.kind = "detail" => isPubliclyVisible(posts[request.id], now)
       /\ ~isPubliclyVisible(posts[request.id], now) => response.kind = "not_found"

\* ------------------------------------------------------------------- C2
\* C2: the author of a post always gets its detail page, whatever the
\* post's flag, its category's flag and its publish date are.
C2_AuthorAlwaysViews ==
  (DetailOf(request) /\ posts[request.id].author = request.actor)
    => response = Response("detail", {request.id})

C2_Witness ==
  /\ DetailOf(request)
  /\ posts[request.id].author = request.actor
  /\ posts[request.id].is_published = FALSE
  /\ Category[posts[request.id].category].is_published = FALSE
  /\ posts[request.id].pub_date > now
  /\ response = Response("detail", {request.id})

\* ------------------------------------------------------------------- C3
\* C3: the home feed lists exactly the publicly visible posts, the publish
\* date compared as a timestamp with now.
C3_HomeFeedIsPubliclyVisible ==
  request.view = "PostListView"
    => /\ response.kind = "list"
       /\ response.body = { p \in DOMAIN posts : isPubliclyVisible(posts[p], now) }

\* ------------------------------------------------------------------- C4
\* C4: a profile lists all of the user's posts to the user, and only the
\* publicly visible ones to every other viewer.
C4_ProfileScope ==
  (request.view = "ProfileView" /\ request.name \in Users)
    => /\ response.kind = "list"
       /\ response.body =
            IF request.actor = request.name
              THEN { p \in DOMAIN posts : posts[p].author = request.name }
              ELSE { p \in DOMAIN posts :
                       /\ posts[p].author = request.name
                       /\ isPubliclyVisible(posts[p], now) }

\* ------------------------------------------------------------------- C5
\* C5: the category listing is not-found unless the slug names a published
\* category, and otherwise lists exactly the category's publicly visible
\* posts, which are the category's posts on the home feed at the same now.
C5_CategoryListing ==
  request.view = "CategoryList"
    => IF \E c \in CategoryIds :
            Category[c].slug = request.name /\ Category[c].is_published
         THEN /\ response.kind = "list"
              /\ response.body =
                   { p \in DOMAIN posts :
                       /\ Category[posts[p].category].slug = request.name
                       /\ isPubliclyVisible(posts[p], now) }
              /\ response.body =
                   { p \in PostListView_get_queryset :
                       Category[posts[p].category].slug = request.name }
         ELSE response.kind = "not_found"

\* ------------------------------------------------------------------- C6
UpdateDeleteViews ==
  {"PostUpdateView", "PostDeleteView", "CommentUpdateView", "CommentDeleteView"}

\* the actor of req may change its target, by the stored rows
MayMutate(req) ==
  CASE req.view = "PostUpdateView" ->
         req.id \in DOMAIN posts /\ canMutate(posts[req.id].author, req.actor)
    [] req.view = "PostDeleteView" ->
         /\ req.id \in DOMAIN posts
         /\ is_authenticated(req.actor)
         /\ (req.actor = posts[req.id].author \/ is_staff(req.actor))
    [] req.view \in {"CommentUpdateView", "CommentDeleteView"} ->
         req.id \in DOMAIN comments /\ canMutate(comments[req.id].author, req.actor)
    [] OTHER -> FALSE

\* C6: an update or delete request changes the stored posts or comments
\* only when its actor is authenticated and is the target's author (for a
\* post delete: the author or a staff user); a request by anyone else
\* leaves every post and every comment as it was.
C6_OnlyAuthorMutates ==
  [][ (request'.view \in UpdateDeleteViews /\ ~MayMutate(request'))
        => (posts' = posts /\ comments' = comments) ]_vars

C6_Witness ==
  /\ request.view = "PostUpdateView"
  /\ request.method = "POST"
  /\ is_authenticated(request.actor)
  /\ request.id \in DOMAIN posts
  /\ posts[request.id].author # request.actor
  /\ response.kind = "redirect_detail"
  /\ DOMAIN comments # {}

\* ------------------------------------------------------------------- C7
\* a submission by an authenticated actor against a stored post or comment
\* of another author, answered with something other than the re-rendered
\* form
DeniedSubmission ==
  /\ request.view \in UpdateDeleteViews
  /\ request.method = "POST"
  /\ is_authenticated(request.actor)
  /\ IF request.view \in {"PostUpdateView", "PostDeleteView"}
       THEN request.id \in DOMAIN posts /\ posts[request.id].author # request.actor
       ELSE request.id \in DOMAIN comments /\ comments[request.id].author # request.actor
  /\ response.kind # "form"

\* C7: unauthorized post-update, post-delete, comment-update and
\* comment-delete submissions are all answered alike, all with a redirect
\* to the detail view or all with not-found.
C7_UniformViolationResponse ==
  [][ (DeniedSubmission /\ DeniedSubmission')
        => (/\ response'.kind = response.kind
            /\ response.kind \in {"redirect_detail", "not_found"}) ]_vars

\* ------------------------------------------------------------------- C8
CommentsReferToPosts ==
  \A c \in DOMAIN comments : comments[c].post \in DOMAIN posts

\* C8: every stored comment refers to a stored post, and a step that
\* removes a post removes exactly the comments of that post.
C8_CommentsBelongToPosts ==
  /\ CommentsReferToPosts
  /\ [][ /\ CommentsReferToPosts'
         /\ \A p \in DOMAIN posts \ DOMAIN posts' :
              /\ \A c \in DOMAIN comments' : comments'[c].post # p
              /\ \A c \in DOMAIN comments :
                   comments[c].post # p
                     => (c \in DOMAIN comments' /\ comments'[c] = comments[c]) ]_vars

C8_Witness ==
  /\ request.view = "PostDeleteView"
  /\ response.kind = "redirect_index"
  /\ nextCommentId = MaxComments + 1
  /\ Cardinality(DOMAIN comments) = MaxComments - 1
  /\ DOMAIN posts # {}

\* ------------------------------------------------------------------- C9
\* C9: a comment submission by an authenticated actor for a post id that
\* is not stored is answered not-found and stores nothing; a submission by
\* an unauthenticated actor stores nothing.
C9_CommentOnMissingPost ==
  /\ [] ( ( /\ request.view = "CommentCreateView"
            /\ request.method = "POST"
            /\ is_authenticated(request.actor)
            /\ request.id \notin DOMAIN posts )
          => response.kind = "not_found" )
  /\ [][ ( /\ request'.view = "CommentCreateView"
           /\ (~is_authenticated(request'.actor) \/ request'.id \notin DOMAIN posts) )
         => comments' = comments ]_vars

\* ------------------------------------------------------------------ C10
\* C10: a request to the post-update view, GET or POST, by an actor who
\* may not mutate the post is answered with a redirect to the detail view
\* or not-found, never with the edit form of the post.
C10_EditFormOnlyForAuthor ==
  ( /\ request.view = "PostUpdateView"
    /\ request.id \in DOMAIN posts
    /\ ~canMutate(posts[request.id].author, request.actor) )
    => response.kind \in {"redirect_detail", "not_found"}

====
